---- MODULE Spec2Model ----
(***************************************************************************)
(* Model of FinalSQLExtremophile.py: the Streamlit dashboard over the      *)
(* biological research database.                                           *)
(*                                                                         *)
(* One run of main() is one render.  A render is modelled in three steps:  *)
(* the sidebar Connect button, the `connected` gate with the search box,   *)
(* and the selected page.  Every Python scalar is modelled by the string   *)
(* of its repr ("None", "np.int64(1)", "1", "Archaea"); an SQL text is the *)
(* sequence of the string pieces it is concatenated from; a DataFrame is   *)
(* a record of its column names and its rows.                              *)
(***************************************************************************)
EXTENDS Integers, Sequences, FiniteSets, TLC

VARIABLES
    connected,        \* st.session_state.connected
    lastConnect,      \* history: outcome of the most recent Connect press
    pc,               \* position in main(): "main", "gate", "page", "done"
    button,           \* this render's Connect press: "none", "ok", "fail"
    page,             \* this render's page selectbox value ("" before it is drawn)
    label,            \* this render's query-label selectbox value
    domain_filter,    \* this render's domain multiselect value
    organism_name,    \* this render's organism selectbox value
    trace,            \* this render's events, in program order
    error,            \* the unhandled exception that ended this render, or "none"
    project_summary,  \* administrator_view: the grouped summary
    details,          \* administrator_view: the per-project detail blocks
    openConns         \* connections opened by execute_query and not closed

vars == <<connected, lastConnect, pc, button, page, label, domain_filter,
          organism_name, trace, error, project_summary, details, openConns>>

----------------------------------------------------------------------------
(* Bounds *)

MaxRows == 3          \* rows of an Admin_High_Funded_Projects result
MaxProfileRows == 2   \* rows of an Organism_Profile result
MaxNames == 2         \* rows of the SELECT Name FROM Organism result
MaxLeak == 2          \* cap on connections left open

----------------------------------------------------------------------------
(* Python values *)

None == "None"

\* pandas isna() on a cell that came from a NULL
isna(v) == v = None

\* isinstance(p, np.integer)
NpIntegers == {"np.int64(1)", "np.int64(2)"}

IsNpInteger(p) == p \in NpIntegers

\* int(p) for a numpy integer p: the plain Python int of the same value
PyInt(p) ==
    CASE p = "np.int64(1)" -> "1"
      [] p = "np.int64(2)" -> "2"
      [] OTHER -> p

\* pd.DataFrame(): no columns, no rows
EmptyDF == [cols |-> <<>>, rows |-> <<>>]

\* pd.DataFrame(result, columns=columns): every result tuple zipped with the
\* column names
DataFrame(result, columns) ==
    LET names == {columns[i] : i \in 1..Len(columns)}
        idx   == [c \in names |-> CHOOSE i \in 1..Len(columns) : columns[i] = c]
    IN  [cols |-> columns,
         rows |-> [k \in 1..Len(result) |-> [c \in names |-> result[k][idx[c]]]]]

HasCol(df, c) == \E i \in 1..Len(df.cols) : df.cols[i] = c

\* row[c] for a row of df
Cell(df, row, c) == row[c]

\* one event of a render
Ev(ev, q, p, df) == [ev |-> ev, q |-> q, p |-> p, df |-> df]

----------------------------------------------------------------------------
(* What the store answers to one execute_query call: the connection fails, *)
(* the store rejects the statement, or the store returns a table.          *)

Outcomes(tables) ==
    {[kind |-> "connfail", tbl |-> EmptyDF], [kind |-> "reject", tbl |-> EmptyDF]}
    \cup {[kind |-> "rows", tbl |-> t] : t \in tables}

\* mysql.connector.connect either returns a connection or raises
\* mysql.connector.Error, which is caught: st.error and the None marker
connect_to_db(ok) ==
    IF ok
    THEN [conn |-> TRUE, tr |-> <<Ev("connect", <<>>, <<>>, EmptyDF)>>]
    ELSE [conn |-> FALSE, tr |-> <<Ev("st.error", <<>>, <<>>, EmptyDF)>>]

\* tuple(int(p) if isinstance(p, np.integer) else p for p in params)
NormalizeParams(params) ==
    [i \in 1..Len(params) |-> IF IsNpInteger(params[i]) THEN PyInt(params[i]) ELSE params[i]]

\* the part of execute_query after a successful connect
RunOnConnection(query, params, o) ==
    LET bound == IF params # <<>> THEN NormalizeParams(params) ELSE <<>>
        sent  == <<Ev("cursor", <<>>, <<>>, EmptyDF), Ev("cursor.execute", query, bound, EmptyDF)>>
    IN  IF o.kind = "reject"
        THEN [tr |-> sent, df |-> EmptyDF, raised |-> TRUE]
        ELSE LET df == DataFrame(o.tbl.rows, o.tbl.cols)
             IN  [tr |-> sent \o <<Ev("fetchall", <<>>, <<>>, EmptyDF),
                                    Ev("cursor.close", <<>>, <<>>, EmptyDF),
                                    Ev("conn.close", <<>>, <<>>, EmptyDF)>>,
                   df |-> df, raised |-> FALSE]

\* execute_query without the `if conn is None` return of lines 27-28
execute_query_unchecked(query, params, o) ==
    LET c == connect_to_db(o.kind # "connfail")
        r == RunOnConnection(query, params, o)
    IN  [tr |-> <<Ev("execute_query", query, params, EmptyDF)>> \o c.tr \o r.tr
                  \o (IF r.raised THEN <<>> ELSE <<Ev("return", <<>>, <<>>, r.df)>>),
         df |-> r.df, raised |-> r.raised]

\* execute_query(query, ..., params): params None is the empty tuple here,
\* both take the `else` branch of `if params:`
execute_query(query, params, o) ==
    LET c    == connect_to_db(o.kind # "connfail")
        call == <<Ev("execute_query", query, params, EmptyDF)>>
    IN  IF ~c.conn
        THEN [tr |-> call \o c.tr \o <<Ev("return", <<>>, <<>>, EmptyDF)>>,
              df |-> EmptyDF, raised |-> FALSE]
        ELSE LET r == RunOnConnection(query, params, o)
             IN  [tr |-> call \o c.tr \o r.tr
                           \o (IF r.raised THEN <<>> ELSE <<Ev("return", <<>>, <<>>, r.df)>>),
                  df |-> r.df, raised |-> r.raised]

\* number of events named ev in a trace
RECURSIVE CountEv(_, _)
CountEv(tr, ev) ==
    IF tr = <<>> THEN 0
    ELSE (IF tr[1].ev = ev THEN 1 ELSE 0) + CountEv(Tail(tr), ev)

\* connections a piece of trace opened and did not close
Leaked(tr) == CountEv(tr, "connect") - CountEv(tr, "conn.close")

----------------------------------------------------------------------------
(* Search *)

SearchTerms == {"bac"}

\* f"%{search_term}%"
LikePattern(term) == CASE term = "bac" -> "%bac%" [] OTHER -> "%%"

SearchQuery ==
    <<"SELECT 'Organism' as Type, Name as Result FROM Organism WHERE Name LIKE %s UNION SELECT 'Project' as Type, Title as Result FROM ProjectInfo WHERE Title LIKE %s">>

SearchTables ==
    {[cols |-> <<"Type", "Result">>, rows |-> rs] :
        rs \in {<<>>, << <<"Organism", "Bacillus">> >>}}

search_database(search_term, o) ==
    execute_query(SearchQuery, <<LikePattern(search_term), LikePattern(search_term)>>, o)

----------------------------------------------------------------------------
(* main(): the Connect button and the gate *)

Pages == {"Student View", "Researcher View", "Administrator View", "Organism Profiles"}

\* a view or main raised: the render ends with the error shown
Abort(tr, err) ==
    /\ trace' = trace \o tr
    /\ error' = err
    /\ pc' = "done"
    /\ openConns' = openConns + Leaked(tr)
    /\ openConns' <= MaxLeak

\* a view returned: the render is complete
Complete(tr) ==
    /\ trace' = trace \o tr
    /\ error' = "none"
    /\ pc' = "done"
    /\ openConns' = openConns + Leaked(tr)

\* FlagAfterPress with line 215 missing: a failed press leaves the flag alone
FlagAfterPressKeep(conn, flag) == conn \/ flag

\* GateOpen with the gate always open
GateOpenAlways(flag) == TRUE

\* lines 209-215: the flag after a Connect press; conn is whether
\* connect_to_db returned a connection
FlagAfterPress(conn, flag) == conn

\* line 218: if st.session_state.connected
GateOpen(flag) == flag

\* lines 194-215: a new run of main() up to the gate; press is whether the
\* Connect button was clicked, ok whether mysql.connector.connect succeeds
ConnectButton ==
    /\ pc \in {"main", "done"}
    /\ \E press \in BOOLEAN :
         IF press
         THEN \E ok \in BOOLEAN :
                LET c == connect_to_db(ok)
                IN  /\ trace' = c.tr \o (IF c.conn
                                         THEN <<Ev("st.sidebar.success", <<>>, <<>>, EmptyDF),
                                                Ev("conn.close", <<>>, <<>>, EmptyDF)>>
                                         ELSE <<Ev("st.sidebar.error", <<>>, <<>>, EmptyDF)>>)
                    /\ connected' = FlagAfterPress(c.conn, connected)
                    /\ button' = IF c.conn THEN "ok" ELSE "fail"
                    /\ lastConnect' = IF c.conn THEN "ok" ELSE "fail"
         ELSE /\ trace' = <<>>
              /\ button' = "none"
              /\ UNCHANGED <<connected, lastConnect>>
    /\ pc' = "gate"
    /\ page' = ""
    /\ label' = ""
    /\ domain_filter' = <<>>
    /\ organism_name' = ""
    /\ error' = "none"
    /\ project_summary' = <<>>
    /\ details' = <<>>
    /\ UNCHANGED openConns

\* lines 218-226: the flag is set; the search box, then the page selectbox
GateConnected ==
    /\ pc = "gate"
    /\ GateOpen(connected)
    /\ \E search_term \in SearchTerms \cup {""}, pg \in Pages :
         IF search_term # ""
         THEN \E o \in Outcomes(SearchTables) :
                LET r == search_database(search_term, o)
                IN  IF r.raised
                    THEN /\ Abort(r.tr, "mysql.connector.Error")
                         /\ page' = ""
                    ELSE /\ trace' = trace \o r.tr \o <<Ev("st.sidebar.write", <<>>, <<>>, r.df)>>
                         /\ page' = pg
                         /\ pc' = "page"
                         /\ UNCHANGED <<error, openConns>>
         ELSE /\ page' = pg
              /\ pc' = "page"
              /\ UNCHANGED <<trace, error, openConns>>
    /\ UNCHANGED <<connected, lastConnect, button, label, domain_filter,
                   organism_name, project_summary, details>>

\* lines 237-238: the flag is unset; only the placeholder
GatePlaceholder ==
    /\ pc = "gate"
    /\ ~GateOpen(connected)
    /\ trace' = trace \o <<Ev("st.write", <<"Please connect to the database to proceed.">>, <<>>, EmptyDF)>>
    /\ pc' = "done"
    /\ UNCHANGED <<connected, lastConnect, button, page, label, domain_filter,
                   organism_name, error, project_summary, details, openConns>>

----------------------------------------------------------------------------
(* Student View *)

StudentLabels ==
    {"List organisms with their taxonomic information and ecosystem",
     "Find average optimal temperature for organisms in each ecosystem"}

Domains == {"Archaea", "Bacteria", "Eukarya"}

\* st.multiselect: the selected options, each at most once, in selection order
Selections ==
    {s \in UNION {[1..n -> Domains] : n \in 0..Cardinality(Domains)} :
        \A i, j \in 1..Len(s) : i # j => s[i] # s[j]}

\* ['%s'] * n
RECURSIVE Repeat(_, _)
Repeat(x, n) == IF n = 0 THEN <<>> ELSE <<x>> \o Repeat(x, n - 1)

\* sep.join(parts), as the pieces of the resulting string
RECURSIVE Join(_, _)
Join(sep, parts) ==
    IF parts = <<>> THEN <<>>
    ELSE IF Len(parts) = 1 THEN <<parts[1]>>
    ELSE <<parts[1], sep>> \o Join(sep, Tail(parts))

base_query == <<"SELECT * FROM Student_Organism_Taxonomy_Ecosystem">>

\* FilteredQuery with the selected values written into the text
FilteredQueryInterpolated(filter) ==
    base_query \o <<" WHERE Domain IN (">> \o Join(",", filter) \o <<")">>

\* base_query + f" WHERE Domain IN ({','.join(['%s']*len(domain_filter))})"
FilteredQuery(filter) ==
    base_query \o <<" WHERE Domain IN (">> \o Join(",", Repeat("%s", Len(filter))) \o <<")">>

TaxonomyTables ==
    {[cols |-> <<"OrganismName", "Domain", "EcosystemName">>, rows |-> rs] :
        rs \in {<<>>, << <<"Pyrococcus furiosus", "Archaea", "Hydrothermal Vent">> >>}}

AvgTempTables ==
    {[cols |-> <<"EcosystemName", "AverageOptimalTemp">>, rows |-> rs] :
        rs \in {<<>>, << <<"Hydrothermal Vent", "95.0">> >>}}

\* lines 83-98
StudentTaxonomy(filter, o) ==
    LET r == IF filter # <<>>
             THEN execute_query(FilteredQuery(filter), filter, o)
             ELSE execute_query(base_query, <<>>, o)
        shown == r.tr \o <<Ev("st.dataframe", <<>>, <<>>, r.df)>>
    IN  IF r.raised THEN Abort(r.tr, "mysql.connector.Error")
        ELSE IF ~HasCol(r.df, "Domain") THEN Abort(shown, "KeyError")
        ELSE Complete(shown \o <<Ev("st.plotly_chart", <<"Organism Count by Domain">>, <<>>, r.df)>>)

\* lines 100-106
StudentAvgTemp(o) ==
    LET r == execute_query(<<"SELECT * FROM Student_Avg_Optimum_Temp_By_Ecosystem">>, <<>>, o)
        shown == r.tr \o <<Ev("st.dataframe", <<>>, <<>>, r.df)>>
    IN  IF r.raised THEN Abort(r.tr, "mysql.connector.Error")
        ELSE IF ~(HasCol(r.df, "EcosystemName") /\ HasCol(r.df, "AverageOptimalTemp"))
             THEN Abort(shown, "ValueError")
        ELSE Complete(shown \o <<Ev("st.plotly_chart", <<"Average Optimal Temperature by Ecosystem">>, <<>>, r.df)>>)

student_view ==
    /\ pc = "page"
    /\ page = "Student View"
    /\ \E lb \in StudentLabels :
         /\ label' = lb
         /\ IF lb = "List organisms with their taxonomic information and ecosystem"
            THEN \E filter \in Selections, o \in Outcomes(TaxonomyTables) :
                   /\ domain_filter' = filter
                   /\ StudentTaxonomy(filter, o)
            ELSE \E o \in Outcomes(AvgTempTables) :
                   /\ domain_filter' = <<>>
                   /\ StudentAvgTemp(o)
    /\ UNCHANGED <<connected, lastConnect, button, page, organism_name,
                   project_summary, details>>

----------------------------------------------------------------------------
(* Researcher View and the pass-through Administrator queries *)

ResearcherLabels ==
    {"Organisms with extreme temperature requirements",
     "Funding sources for projects related to aquatic ecosystems",
     "Analysis organisms and projects by domain and ecosystem",
     "Organism names, average optimum temperature, and associated project titles"}

ResearcherQuery(lb) ==
    CASE lb = "Organisms with extreme temperature requirements"
           -> <<"SELECT * FROM Researcher_Extreme_Temperature_Organisms">>
      [] lb = "Funding sources for projects related to aquatic ecosystems"
           -> <<"SELECT * FROM Researcher_Funding_Aquatic_Projects">>
      [] lb = "Analysis organisms and projects by domain and ecosystem"
           -> <<"SELECT * FROM Researcher_Organisms_Projects_Domain_Ecosystem">>
      [] OTHER
           -> <<"SELECT * FROM Researcher_Organism_Temperature_Project">>

HighFundedLabel == "High-funded projects and associated organisms"

AdminPlainLabels ==
    {"List all projects with their status and count of associated organisms",
     "Find organisms without any associated projects",
     "Calculate the duration of each project and list associated organisms",
     "View temperature statistics for specific ecosystems"}

AdminPlainQuery(lb) ==
    CASE lb = "List all projects with their status and count of associated organisms"
           -> <<"SELECT * FROM Admin_Projects_Status_OrganismCount">>
      [] lb = "Find organisms without any associated projects"
           -> <<"SELECT * FROM Admin_Organisms_Without_Projects">>
      [] lb = "Calculate the duration of each project and list associated organisms"
           -> <<"SELECT * FROM Admin_Project_Duration_Organisms">>
      [] OTHER
           -> <<"SELECT * FROM Admin_Temperature_Stats_By_Ecosystem">>

\* what a reporting view returns: its columns, with or without a row
ReportTables ==
    {[cols |-> <<"Name", "Value">>, rows |-> rs] : rs \in {<<>>, << <<"n", "v">> >>}}

\* df = execute_query("SELECT * FROM ..."); st.dataframe(df)
PassThrough(query, o) ==
    LET r == execute_query(query, <<>>, o)
    IN  IF r.raised THEN Abort(r.tr, "mysql.connector.Error")
        ELSE Complete(r.tr \o <<Ev("st.dataframe", <<>>, <<>>, r.df)>>)

\* lines 109-133
researcher_view ==
    /\ pc = "page"
    /\ page = "Researcher View"
    /\ \E lb \in ResearcherLabels, o \in Outcomes(ReportTables) :
         /\ label' = lb
         /\ PassThrough(ResearcherQuery(lb), o)
    /\ UNCHANGED <<connected, lastConnect, button, page, domain_filter,
                   organism_name, project_summary, details>>

\* lines 147-161
administrator_plain ==
    /\ pc = "page"
    /\ page = "Administrator View"
    /\ \E lb \in AdminPlainLabels, o \in Outcomes(ReportTables) :
         /\ label' = lb
         /\ PassThrough(AdminPlainQuery(lb), o)
    /\ UNCHANGED <<connected, lastConnect, button, page, domain_filter,
                   organism_name, project_summary, details>>

----------------------------------------------------------------------------
(* Administrator View: high-funded projects *)

FundedCols ==
    <<"ProjectTitle", "TotalFunding", "ProjectStatus", "OrganismName", "Domain", "EcosystemName">>

\* the project titles of the store, in the order groupby sorts its keys
Collation == <<"P1", "P2">>

\* TotalFunding and ProjectStatus of a row: both are attributes of the project
FundingStatus == {<<"3", "Active">>, <<"5", "Closed">>, <<None, None>>}

FundedRows ==
    {<<t, fs[1], fs[2], n, "Archaea", "Hot Spring">> :
        t \in {"P1", "P2", None}, fs \in FundingStatus, n \in {"OrgA", None}}

\* the result tables of the session specification: the example of the
\* specification text, an empty result, and results holding NULLs
SampleFunded ==
    {[cols |-> FundedCols, rows |-> rs] : rs \in
        {<<>>,
         << <<"P1", "3", "Active", "OrgA", "Archaea", "Hot Spring">>,
            <<"P1", "3", "Active", "OrgB", "Archaea", "Hot Spring">>,
            <<"P2", "5", "Closed", "OrgC", "Archaea", "Hot Spring">> >>,
         << <<"P1", "3", "Active", None, "Archaea", "Hot Spring">> >>,
         << <<None, None, "Active", "OrgA", "Archaea", "Hot Spring">> >>}}

\* df[df['ProjectTitle'] == project]
RowsOf(df, project) ==
    SelectSeq(df.rows, LAMBDA row : Cell(df, row, "ProjectTitle") = project)

\* the keys of df.groupby('ProjectTitle'): NULL titles are dropped, keys sorted
GroupKeys(df) ==
    SelectSeq(Collation, LAMBDA k : RowsOf(df, k) # <<>>)

\* the first element of a sequence of cells, None if there is none
FirstOrNone(cells) == IF cells = <<>> THEN None ELSE cells[1]

\* the column c of rows, as a sequence of cells
Column(df, rows, c) == [i \in 1..Len(rows) |-> Cell(df, rows[i], c)]

\* agg 'first': the first non-null value of the column in the group
AggFirst(df, rows, c) ==
    FirstOrNone(SelectSeq(Column(df, rows, c), LAMBDA v : ~isna(v)))

\* AggCount as agg 'size': the number of rows of the group
AggSize(df, rows, c) == Len(rows)

\* agg 'count': the number of non-null values of the column in the group
AggCount(df, rows, c) ==
    Len(SelectSeq(Column(df, rows, c), LAMBDA v : ~isna(v)))

\* one row of the summary: the aggregates of one group
SummaryRow(df, key, rows) ==
    [ProjectTitle  |-> key,
     TotalFunding  |-> AggFirst(df, rows, "TotalFunding"),
     ProjectStatus |-> AggFirst(df, rows, "ProjectStatus"),
     OrganismCount |-> AggCount(df, rows, "OrganismName")]

SummaryOf(df, keys) ==
    [i \in 1..Len(keys) |-> SummaryRow(df, keys[i], RowsOf(df, keys[i]))]

\* lines 168-173
ProjectSummary(df) == SummaryOf(df, GroupKeys(df))

\* lines 184-190: one expander
DetailOf(df, project, project_data) ==
    [project       |-> project,
     TotalFunding  |-> Cell(df, project_data[1], "TotalFunding"),
     ProjectStatus |-> Cell(df, project_data[1], "ProjectStatus"),
     NumberOfOrganisms |-> Len(project_data),
     organisms |-> [i \in 1..Len(project_data) |->
                      <<Cell(df, project_data[i], "OrganismName"),
                        Cell(df, project_data[i], "Domain"),
                        Cell(df, project_data[i], "EcosystemName")>>]]

DetailBlock(df, project) == DetailOf(df, project, RowsOf(df, project))

\* f"{x:.2f}" raises TypeError on None; a float column holds NaN instead
FormatFails(v, dtype) == isna(v) /\ dtype = "object"

\* lines 182-190: the blocks written before the loop ends or raises
RECURSIVE DetailBlocks(_, _, _)
DetailsFrom(b, df, projects, dtype) ==
    IF FormatFails(b.TotalFunding, dtype)
    THEN [blocks |-> <<>>, raised |-> TRUE]
    ELSE [blocks |-> <<b>> \o DetailBlocks(df, Tail(projects), dtype).blocks,
          raised |-> DetailBlocks(df, Tail(projects), dtype).raised]

DetailBlocks(df, projects, dtype) ==
    IF projects = <<>> THEN [blocks |-> <<>>, raised |-> FALSE]
    ELSE DetailsFrom(DetailBlock(df, projects[1]), df, projects, dtype)

\* lines 166-190, on the result r of the query
HighFundedRender(r, summary, d) ==
    /\ project_summary' = summary
    /\ details' = d.blocks
    /\ IF d.raised
       THEN Abort(r.tr \o <<Ev("st.dataframe", <<>>, <<>>, r.df),
                            Ev("st.plotly_chart", <<"High-Funded Projects (>$2 million)">>, <<>>, r.df)>>,
                  "TypeError")
       ELSE Complete(r.tr \o <<Ev("st.dataframe", <<>>, <<>>, r.df),
                               Ev("st.plotly_chart", <<"High-Funded Projects (>$2 million)">>, <<>>, r.df)>>)

HighFundedSummarise(r, summary, dtype) ==
    HighFundedRender(r, summary,
        DetailBlocks(r.df, [i \in 1..Len(summary) |-> summary[i].ProjectTitle], dtype))

HighFundedOn(r, dtype) ==
    IF r.raised
    THEN /\ Abort(r.tr, "mysql.connector.Error")
         /\ UNCHANGED <<project_summary, details>>
    ELSE IF ~HasCol(r.df, "ProjectTitle")
    THEN /\ Abort(r.tr \o <<Ev("st.dataframe", <<>>, <<>>, r.df)>>, "KeyError")
         /\ UNCHANGED <<project_summary, details>>
    ELSE HighFundedSummarise(r, ProjectSummary(r.df), dtype)

\* lines 163-190; dtype is the dtype pandas gives the TotalFunding column
HighFunded(o, dtype) ==
    HighFundedOn(execute_query(<<"SELECT * FROM Admin_High_Funded_Projects">>, <<>>, o), dtype)

Dtypes == {"object", "float64"}

administrator_high_funded ==
    /\ pc = "page"
    /\ page = "Administrator View"
    /\ label' = HighFundedLabel
    /\ \E o \in Outcomes(SampleFunded), dtype \in Dtypes : HighFunded(o, dtype)
    /\ UNCHANGED <<connected, lastConnect, button, page, domain_filter, organism_name>>

\* the same view, the store returning any table of at most MaxRows rows
administrator_high_funded_any ==
    /\ pc = "page"
    /\ page = "Administrator View"
    /\ label' = HighFundedLabel
    /\ \E n \in 0..MaxRows : \E rs \in [1..n -> FundedRows], dtype \in Dtypes :
         HighFunded([kind |-> "rows", tbl |-> [cols |-> FundedCols, rows |-> rs]], dtype)
    /\ UNCHANGED <<connected, lastConnect, button, page, domain_filter, organism_name>>

----------------------------------------------------------------------------
(* Organism Profiles *)

Names == {"Pyrococcus", "Deinococcus"}

\* results of SELECT Name FROM Organism
NameTables ==
    {[cols |-> <<"Name">>, rows |-> [i \in 1..Len(ns) |-> <<ns[i]>>]] :
        ns \in {s \in UNION {[1..n -> Names] : n \in 0..MaxNames} :
                  \A i, j \in 1..Len(s) : i # j => s[i] # s[j]}}

\* st.selectbox over df['Name'].tolist(): one of the options, None if there are none
SelectboxValues(df) ==
    IF df.rows = <<>> THEN {None} ELSE {Cell(df, df.rows[i], "Name") : i \in 1..Len(df.rows)}

\* OrganismID cells as pandas hands them over: numpy or plain integers
OrganismIDs == {"np.int64(1)", "2"}

\* results of SELECT * FROM Organism_Profile WHERE Name = name
ProfileTables(name) ==
    {[cols |-> <<"OrganismID", "Name">>, rows |-> [i \in 1..Len(ids) |-> <<ids[i], name>>]] :
        ids \in UNION {[1..n -> OrganismIDs] : n \in 0..MaxProfileRows}}

EnvTables ==
    {[cols |-> <<"OrganismID", "Temperature">>, rows |-> << <<"1", "95.0">> >>]}

ProjectTables ==
    {[cols |-> <<"Title", "Status">>, rows |-> << <<"P1", "Active">> >>]}

ProfileQuery == <<"SELECT * FROM Organism_Profile WHERE Name = %s">>

EnvQuery == <<"SELECT * FROM EnvironmentalCondition WHERE OrganismID = %s">>

ProjectsQuery ==
    <<"SELECT pi.Title, pi.Description, pi.StartDate, pi.EndDate, ps.Status FROM ProjectInfo pi JOIN Organism_ResearchProject orp ON pi.ProjectID = orp.ProjectID JOIN ProjectStatus ps ON pi.ProjectID = ps.ProjectID JOIN Organism o ON orp.OrganismID = o.OrganismID WHERE o.Name = %s">>

\* ExtractId reading the last row, iloc[-1]
ExtractIdLast(organism_info) ==
    IF organism_info.rows = <<>> THEN [err |-> "IndexError", id |-> None]
    ELSE [err |-> "none",
          id |-> PyInt(Cell(organism_info, organism_info.rows[Len(organism_info.rows)], "OrganismID"))]

\* ExtractId yielding a null id for an empty result instead of raising
ExtractIdOrNone(organism_info) ==
    IF organism_info.rows = <<>> THEN [err |-> "none", id |-> None]
    ELSE [err |-> "none", id |-> PyInt(Cell(organism_info, organism_info.rows[1], "OrganismID"))]

\* line 56: int(organism_info.iloc[0]['OrganismID'])
ExtractId(organism_info) ==
    IF organism_info.rows = <<>> THEN [err |-> "IndexError", id |-> None]
    ELSE IF ~HasCol(organism_info, "OrganismID") THEN [err |-> "KeyError", id |-> None]
    ELSE [err |-> "none", id |-> PyInt(Cell(organism_info, organism_info.rows[1], "OrganismID"))]

\* lines 54-72; pre is what main did before the call
organism_profile(pre, name, o1, o2, o3) ==
    LET r1 == execute_query(ProfileQuery, <<name>>, o1)
        x  == ExtractId(r1.df)
        r2 == execute_query(EnvQuery, <<x.id>>, o2)
        r3 == execute_query(ProjectsQuery, <<name>>, o3)
    IN  IF r1.raised THEN Abort(pre \o r1.tr, "mysql.connector.Error")
        ELSE IF x.err # "none" THEN Abort(pre \o r1.tr, x.err)
        ELSE IF r2.raised THEN Abort(pre \o r1.tr \o r2.tr, "mysql.connector.Error")
        ELSE IF r3.raised THEN Abort(pre \o r1.tr \o r2.tr \o r3.tr, "mysql.connector.Error")
        ELSE Complete(pre \o r1.tr \o r2.tr \o r3.tr
                      \o <<Ev("st.write", <<"Organism Profile">>, <<name>>, r1.df),
                           Ev("st.write", <<"Environmental Conditions">>, <<>>, r2.df),
                           Ev("st.write", <<"Associated Projects">>, <<>>, r3.df)>>)

\* lines 234-236
organism_profiles ==
    /\ pc = "page"
    /\ page = "Organism Profiles"
    /\ \E o0 \in Outcomes(NameTables) :
         LET r0 == execute_query(<<"SELECT Name FROM Organism">>, <<>>, o0)
         IN  IF r0.raised
             THEN /\ Abort(r0.tr, "mysql.connector.Error")
                  /\ UNCHANGED organism_name
             ELSE IF ~HasCol(r0.df, "Name")
             THEN /\ Abort(r0.tr, "KeyError")
                  /\ UNCHANGED organism_name
             ELSE \E name \in SelectboxValues(r0.df) :
                    /\ organism_name' = name
                    /\ \E o1 \in Outcomes(ProfileTables(name)),
                          o2 \in Outcomes(EnvTables), o3 \in Outcomes(ProjectTables) :
                         organism_profile(r0.tr \o <<Ev("st.selectbox", <<>>, <<name>>, r0.df)>>,
                                          name, o1, o2, o3)
    /\ UNCHANGED <<connected, lastConnect, button, page, label, domain_filter,
                   project_summary, details>>

----------------------------------------------------------------------------
(* Specifications *)

Init ==
    /\ connected = FALSE
    /\ lastConnect = "none"
    /\ pc = "main"
    /\ button = "none"
    /\ page = ""
    /\ label = ""
    /\ domain_filter = <<>>
    /\ organism_name = ""
    /\ trace = <<>>
    /\ error = "none"
    /\ project_summary = <<>>
    /\ details = <<>>
    /\ openConns = 0

Next ==
    \/ ConnectButton
    \/ GateConnected
    \/ GatePlaceholder
    \/ student_view
    \/ researcher_view
    \/ administrator_plain
    \/ administrator_high_funded
    \/ organism_profiles

\* the whole session, with small result tables
Spec == Init /\ [][Next]_vars

\* a render that has passed the gate with the Administrator page selected
InitAgg ==
    /\ connected = TRUE
    /\ lastConnect = "ok"
    /\ pc = "page"
    /\ button = "none"
    /\ page = "Administrator View"
    /\ label = ""
    /\ domain_filter = <<>>
    /\ organism_name = ""
    /\ trace = <<>>
    /\ error = "none"
    /\ project_summary = <<>>
    /\ details = <<>>
    /\ openConns = 0

NextAgg == administrator_high_funded_any

\* the high-funded-projects view over every result table within the bounds
SpecAgg == InitAgg /\ [][NextAgg]_vars

----------------------------------------------------------------------------
(* Properties *)

Placeholder == <<"Please connect to the database to proceed.">>

\* positions of the execute_query calls of this render
CallAt == {i \in 1..Len(trace) : trace[i].ev = "execute_query"}

\* the execute_query call at position i found no connection
ConnFailedAt(i) == i \in CallAt /\ i < Len(trace) /\ trace[i + 1].ev = "st.error"

C1_Step ==
    (connected' # connected) =>
        /\ pc \in {"main", "done"}
        /\ pc' = "gate"
        /\ button' = (IF connected' THEN "ok" ELSE "fail")

\* C1: the flag starts false; it changes only in the Connect step of a render,
\* to true when the pressed Connect succeeded and to false when it failed; so
\* it is true exactly when the most recent Connect press succeeded.
C1_FlagFollowsConnect ==
    /\ connected = FALSE
    /\ [][C1_Step]_vars
    /\ [](connected <=> (lastConnect = "ok"))

\* a failed press has cleared the flag of a session that had run queries
C1_Witness == ~connected /\ button = "fail" /\ openConns > 0 /\ pc = "gate"

\* C2: with the flag false at the gate no execute_query call is made, nothing
\* is sent to the store, no page is selected and no view runs: the render
\* shows the placeholder; so also in a render whose Connect press failed.
C2_GateClosed ==
    /\ (pc = "page") => connected
    /\ (pc = "done" /\ (~connected \/ button = "fail")) =>
          /\ CallAt = {}
          /\ CountEv(trace, "cursor.execute") = 0
          /\ page = ""
          /\ error = "none"
          /\ trace # <<>>
          /\ trace[Len(trace)].ev = "st.write"
          /\ trace[Len(trace)].q = Placeholder
          /\ \A i \in 1..Len(trace) - 1 : trace[i].ev \in {"st.error", "st.sidebar.error"}

\* a render whose Connect press failed, in a session that had run queries
C2_Witness == pc = "done" /\ button = "fail" /\ openConns > 0

\* C3: an execute_query call whose connect fails returns the empty table at
\* once: no cursor, nothing sent to the store, no error raised by the call.
C3_ConnFailEmpty ==
    \A i \in CallAt :
        ConnFailedAt(i) =>
            /\ i + 2 <= Len(trace)
            /\ trace[i + 2].ev = "return"
            /\ trace[i + 2].df = EmptyDF
            /\ trace[i + 2].df.rows = <<>>
            /\ trace[i + 2].df.cols = <<>>

\* a parameterised query and an unparameterised one both met a failed connect
C3_Witness ==
    /\ pc = "done"
    /\ \E i, j \in CallAt :
         /\ ConnFailedAt(i) /\ trace[i].p # <<>>
         /\ ConnFailedAt(j) /\ trace[j].p = <<>>

\* C4: no connection opened by execute_query is open once the call is over.
C4_AllReleased == openConns = 0

\* C5: a render that passed the gate and met a connection failure inside a
\* query call, no query being rejected, completes without an unhandled error.
C5_ConnFailNotFatal ==
    (/\ pc = "done"
     /\ connected
     /\ \E i \in CallAt : ConnFailedAt(i)
     /\ error # "mysql.connector.Error")
    => error = "none"


TaxonomyLabel == "List organisms with their taxonomic information and ecosystem"

\* positions of the statements sent to the store after position i
SentAfter(i) == {j \in i + 1..Len(trace) : trace[j].ev = "cursor.execute"}

\* the text of the filtered statement for n selected values, piece by piece
IsInClause(q, n) ==
    /\ Len(q) = 2 * n + 2
    /\ q[1] = "SELECT * FROM Student_Organism_Taxonomy_Ecosystem"
    /\ q[2] = " WHERE Domain IN ("
    /\ q[Len(q)] = ")"
    /\ \A k \in 1..n : q[2 * k + 1] = "%s"
    /\ \A k \in 1..n - 1 : q[2 * k + 2] = ","
    /\ Cardinality({k \in 1..Len(q) : q[k] = "%s"}) = n

\* C6: the Student taxonomy view makes exactly one execute_query call; with an
\* empty selection it is the base query with no parameters, otherwise the
\* base query with a Domain IN clause of one placeholder per selected value,
\* bound to the selected values in selection order; no selected value is in
\* the text; what reaches the store is that statement with those parameters.
C6_DomainFilterQuery ==
    (pc = "done" /\ page = "Student View" /\ label = TaxonomyLabel) =>
        \E i \in CallAt :
            /\ \A j \in CallAt \ {i} : j < i /\ trace[j].q = SearchQuery
            /\ trace[i].p = domain_filter
            /\ IF domain_filter = <<>>
               THEN trace[i].q = <<"SELECT * FROM Student_Organism_Taxonomy_Ecosystem">>
               ELSE IsInClause(trace[i].q, Len(domain_filter))
            /\ \A k \in 1..Len(trace[i].q) : trace[i].q[k] \notin Domains
            /\ Cardinality(SentAfter(i)) <= 1
            /\ \A j \in SentAfter(i) : trace[j].q = trace[i].q /\ trace[j].p = domain_filter

\* two domains selected against their listed order, and the statement ran
C6_Witness ==
    /\ pc = "done" /\ page = "Student View" /\ label = TaxonomyLabel
    /\ domain_filter = <<"Eukarya", "Archaea">>
    /\ error = "none"
    /\ \E j \in 1..Len(trace) : trace[j].ev = "cursor.execute" /\ trace[j].p = domain_filter


\* the smallest element of a non-empty set of positions
Least(S) == CHOOSE k \in S : \A m \in S : k <= m

\* the table the high-funded view received, as it shows it
ShownDF == trace[Least({i \in 1..Len(trace) : trace[i].ev = "st.dataframe"})].df

\* the high-funded view has computed its summary
Summarised ==
    /\ pc = "done"
    /\ label = HighFundedLabel
    /\ \E i \in 1..Len(trace) : trace[i].ev = "st.plotly_chart"

RowsAt(df, t) == {k \in 1..Len(df.rows) : df.rows[k]["ProjectTitle"] = t}

NonNullAt(df, t, c) == {k \in RowsAt(df, t) : df.rows[k][c] # None}

TitlesOf(df) == {df.rows[k]["ProjectTitle"] : k \in 1..Len(df.rows)}

OneGroupPerTitle(df) ==
    /\ {project_summary[i].ProjectTitle : i \in 1..Len(project_summary)} = TitlesOf(df) \ {None}
    /\ Len(project_summary) = Cardinality(TitlesOf(df) \ {None})

FirstNonNull(df, t, c) ==
    IF NonNullAt(df, t, c) = {} THEN None ELSE df.rows[Least(NonNullAt(df, t, c))][c]

\* C7 as amended: one group per distinct non-NULL ProjectTitle; TotalFunding
\* and ProjectStatus of a group are the first non-NULL values of its rows in
\* result order (NULL if it has none); OrganismCount is the number of its
\* rows whose OrganismName is not NULL.
C7_Aggregation ==
    Summarised =>
        /\ OneGroupPerTitle(ShownDF)
        /\ \A i \in 1..Len(project_summary) :
             LET g == project_summary[i]
             IN  /\ g.TotalFunding = FirstNonNull(ShownDF, g.ProjectTitle, "TotalFunding")
                 /\ g.ProjectStatus = FirstNonNull(ShownDF, g.ProjectTitle, "ProjectStatus")
                 /\ g.OrganismCount = Cardinality(NonNullAt(ShownDF, g.ProjectTitle, "OrganismName"))

\* C7 as claimed: TotalFunding and ProjectStatus of a group are those of the
\* first row of its title, OrganismCount is the number of rows of its title.
C7_Original ==
    Summarised =>
        /\ OneGroupPerTitle(ShownDF)
        /\ \A i \in 1..Len(project_summary) :
             LET g == project_summary[i]
                 first == ShownDF.rows[Least(RowsAt(ShownDF, g.ProjectTitle))]
             IN  /\ g.TotalFunding = first["TotalFunding"]
                 /\ g.ProjectStatus = first["ProjectStatus"]
                 /\ g.OrganismCount = Cardinality(RowsAt(ShownDF, g.ProjectTitle))

\* the example of the specification text: three rows without NULLs, two
\* groups of two and of one organism, each with its first-seen funding and status
C7_Witness ==
    /\ Summarised
    /\ Len(ShownDF.rows) = 3
    /\ \A k \in 1..3 : \A c \in {"ProjectTitle", "TotalFunding", "ProjectStatus", "OrganismName"} :
          ShownDF.rows[k][c] # None
    /\ Len(project_summary) = 2
    /\ project_summary[1].OrganismCount = 2
    /\ project_summary[2].OrganismCount = 1
    /\ project_summary[1].TotalFunding # project_summary[2].TotalFunding

\* C10: every project has a detail block, and the OrganismCount of the chart
\* equals the Number of Organisms of the block, the number of rows of the title.
C10_ChartMatchesDetails ==
    (Summarised /\ error = "none") =>
        /\ {details[i].project : i \in 1..Len(details)} = TitlesOf(ShownDF)
        /\ \A i \in 1..Len(details) :
             /\ details[i].NumberOfOrganisms = Cardinality(RowsAt(ShownDF, details[i].project))
             /\ \E j \in 1..Len(project_summary) :
                  /\ project_summary[j].ProjectTitle = details[i].project
                  /\ project_summary[j].OrganismCount = details[i].NumberOfOrganisms


\* positions of the calls of one of the three profile queries
ProfileCalls == {i \in CallAt : trace[i].q = ProfileQuery}

EnvCalls == {i \in CallAt : trace[i].q = EnvQuery}

ProjectCalls == {i \in CallAt : trace[i].q = ProjectsQuery}

\* where the call at position i returns: 0 if it raised
ReturnAt(i) ==
    LET R == {j \in i + 1..Len(trace) :
                /\ trace[j].ev = "return"
                /\ \A k \in i + 1..j - 1 : trace[k].ev \notin {"return", "execute_query"}}
    IN  IF R = {} THEN 0 ELSE Least(R)

\* the call at position i returned a table
Returned(i) == ReturnAt(i) # 0

\* the renders of the three profile tables
ProfileShows == {j \in 1..Len(trace) : trace[j].ev = "st.write"}

\* the Organism Profiles page ran and the profile lookup returned df
LookupReturned(i) ==
    /\ pc = "done"
    /\ page = "Organism Profiles"
    /\ i \in ProfileCalls
    /\ Returned(i)

\* the plain integer of an OrganismID cell
IdOf(cell) == IF cell = "np.int64(1)" THEN "1" ELSE IF cell = "np.int64(2)" THEN "2" ELSE cell

\* the order and the bindings of the profile queries after a lookup at i
\* that returned at least one row
ProfileOrder(i) ==
    /\ ProfileCalls = {i}
    /\ trace[i].p = <<organism_name>>
    /\ Cardinality(EnvCalls) = 1
    /\ \A e \in EnvCalls :
         /\ e > ReturnAt(i)
         /\ trace[e].p = <<IdOf(trace[ReturnAt(i)].df.rows[1]["OrganismID"])>>
         /\ trace[e].p[1] \in {"1", "2"}
         /\ trace[e].p[1] # organism_name
         /\ \A j \in SentAfter(e) : j < ReturnAt(e) => trace[j].p = trace[e].p
         /\ Cardinality(ProjectCalls) = (IF Returned(e) THEN 1 ELSE 0)
         /\ \A p \in ProjectCalls :
              /\ p > ReturnAt(e)
              /\ trace[p].p = <<organism_name>>
              /\ ProfileShows # {} <=> Returned(p)
              /\ \A w \in ProfileShows : w > ReturnAt(p)
         /\ ProjectCalls = {} => ProfileShows = {}
    /\ ProfileShows # {} =>
         /\ Cardinality(ProfileShows) = 3
         /\ error = "none"
    /\ ProfileShows = {} => error = "mysql.connector.Error"

\* C8 as amended: after a profile lookup that returned at least one row the
\* queries run in the order lookup (bound to the name), environmental
\* conditions (issued after the lookup returned, bound to the plain integer
\* OrganismID of its first row, never to the name), project join (bound to
\* the name); all three are executed and the three tables are rendered, after
\* the third has returned, unless the store rejects the second or the third:
\* then the render ends there, the later query is not executed and no table
\* is rendered.
C8_ProfileQueries ==
    \A i \in 1..Len(trace) :
        (LookupReturned(i) /\ trace[ReturnAt(i)].df.rows # <<>>) =>
            /\ ProfileOrder(i)
            /\ error = "none" => Cardinality(ProfileCalls \cup EnvCalls \cup ProjectCalls) = 3

\* C8 as claimed: after such a lookup exactly three queries are executed and
\* the three tables are rendered.
C8_Original ==
    \A i \in 1..Len(trace) :
        (LookupReturned(i) /\ trace[ReturnAt(i)].df.rows # <<>>) =>
            /\ Cardinality(ProfileCalls \cup EnvCalls \cup ProjectCalls) = 3
            /\ Cardinality(ProfileShows) = 3

\* a profile of two rows with different ids, the first a numpy integer: three
\* queries and three tables
C8_Witness ==
    \E i \in 1..Len(trace) :
        /\ LookupReturned(i)
        /\ Len(trace[ReturnAt(i)].df.rows) = 2
        /\ trace[ReturnAt(i)].df.rows[1]["OrganismID"] = "np.int64(1)"
        /\ trace[ReturnAt(i)].df.rows[2]["OrganismID"] = "2"
        /\ Cardinality(ProfileShows) = 3
        /\ error = "none"

\* C9: after a profile lookup that returned no row (the name is not in the
\* store, or the connect of the lookup failed) the extraction of the id
\* raises: no environmental-conditions and no project query is executed and
\* none of the three tables is rendered.
C9_EmptyProfileRaises ==
    \A i \in 1..Len(trace) :
        (LookupReturned(i) /\ trace[ReturnAt(i)].df.rows = <<>>) =>
            /\ error = "IndexError"
            /\ EnvCalls = {}
            /\ ProjectCalls = {}
            /\ ProfileShows = {}
            /\ ReturnAt(i) = Len(trace)

\* the store holds no organism of the selected name, and the lookup ran
C9_Witness ==
    \E i \in 1..Len(trace) :
        /\ LookupReturned(i)
        /\ organism_name \in Names
        /\ trace[ReturnAt(i)].df.cols = <<"OrganismID", "Name">>
        /\ trace[ReturnAt(i)].df.rows = <<>>
        /\ error = "IndexError"

====
